---- MODULE Spec2Model ----
\* Verification model of pino_xutils: the pino_xrdb resource store
\* (src/pino_xrdb/src/lib.rs) and the pino_xmodmap key table and KeySym
\* conversions (src/pino_xmodmap/src/lib.rs).
\*
\* Rust strings are modelled as sequences of one-character strings, so that
\* splitting, trimming and parsing are computed and not assumed.
EXTENDS Integers, Sequences, FiniteSets, TLC

VARIABLES
    xrdb,        \* the Xrdb struct: [db, univeral]
    hist,        \* the insert / insert_universal calls made so far, in order
    last_query,  \* the most recent query call and what it returned
    conv_pc,     \* position of a conversion run: "idle", "char", "sym", "done"
    conv_char,   \* the char handed to KeySym::try_from, if the run starts there
    conv_sym,    \* the KeySym handed to char::try_from (or the failed result)
    conv_back,   \* what char::try_from returned
    raw_xmodmap,   \* the captured output of `xmodmap -pke`
    line_no,       \* how many lines of it the loop of KeyTable::new consumed
    key_to_keysym, \* local of KeyTable::new
    keysym_to_key, \* local of KeyTable::new
    result,        \* what KeyTable::new returned, once it has
    last_lookup,   \* the most recent get_keysym / get_key call and its result
    xmodmap_output, \* what Command::new("xmodmap").arg("-pke").output() gives
    xrdb_output,    \* what Command::new("xrdb").arg("-query").output() gives
    read_ret        \* what Xrdb::read returned, once it has

xrdb_vars == <<xrdb, hist, last_query>>
conv_vars == <<conv_pc, conv_char, conv_sym, conv_back>>
kt_vars == <<raw_xmodmap, line_no, key_to_keysym, keysym_to_key, result,
             last_lookup>>

tool_vars == <<xmodmap_output, xrdb_output, read_ret>>

vars == <<xrdb, hist, last_query, conv_pc, conv_char, conv_sym, conv_back,
          raw_xmodmap, line_no, key_to_keysym, keysym_to_key, result,
          last_lookup, xmodmap_output, xrdb_output, read_ret>>

\* ---------------------------------------------------------------------
\* Bounds
\* ---------------------------------------------------------------------
MaxOps == 3

\* chars are code points 0..MaxChar
MaxChar == 127

\* the captured keymap text has at most MaxLines lines
MaxLines == 3

\* the captured resource text has at most MaxResLines lines
MaxResLines == 3

\* ---------------------------------------------------------------------
\* std::collections::HashMap, as a function whose DOMAIN is the key set
\* ---------------------------------------------------------------------
EmptyMap == <<>>

HashMapInsert(m, k, v) ==
    [x \in (DOMAIN m) \cup {k} |-> IF x = k THEN v ELSE m[x]]

\* Option<T>
None == [some |-> FALSE]
Some(v) == [some |-> TRUE, val |-> v]

HashMapGet(m, k) == IF k \in DOMAIN m THEN Some(m[k]) ELSE None

\* Result<T, E>
Ok(v) == [ok |-> TRUE, val |-> v]
Err(e) == [ok |-> FALSE, err |-> e]

\* ---------------------------------------------------------------------
\* str: a string is a sequence of one-character strings
\* ---------------------------------------------------------------------
\* char::is_ascii_whitespace: space, tab, line feed, form feed, carriage return
IsAsciiWhitespace(c) == c \in {" ", "\t", "\n", "\f", "\r"}

\* The k-th smallest element of a set of integers
Nth(S, k) == CHOOSE p \in S : Cardinality({q \in S : q <= p}) = k

\* str::split_ascii_whitespace, collected: the non-empty maximal runs of
\* characters that are not ASCII whitespace, in order
split_ascii_whitespace(s) ==
    LET first == {i \in 1..Len(s) :
                    /\ ~IsAsciiWhitespace(s[i])
                    /\ (i = 1 \/ IsAsciiWhitespace(s[i - 1]))}
        last  == {i \in 1..Len(s) :
                    /\ ~IsAsciiWhitespace(s[i])
                    /\ (i = Len(s) \/ IsAsciiWhitespace(s[i + 1]))}
    IN  [k \in 1..Cardinality(first) |-> SubSeq(s, Nth(first, k), Nth(last, k))]

\* str::lines, collected: the text is cut after every "\n"; a piece that ends
\* in "\n" loses it and then a "\r" that stood before it; what follows the
\* last "\n" is a line when it is not empty
lines(s) ==
    LET nl   == {i \in 1..Len(s) : s[i] = "\n"}
        ends == nl \cup (IF s # <<>> /\ s[Len(s)] # "\n" THEN {Len(s) + 1} ELSE {})
        from(k) == IF k = 1 THEN 1 ELSE Nth(ends, k - 1) + 1
        cr(k) == /\ Nth(ends, k) \in nl
                 /\ Nth(ends, k) - 1 >= from(k)
                 /\ s[Nth(ends, k) - 1] = "\r"
    IN  [k \in 1..Cardinality(ends) |->
            SubSeq(s, from(k), Nth(ends, k) - (IF cr(k) THEN 2 ELSE 1))]

\* Iterator::next on the n-th call (n from 1)
NextTok(split, n) == IF n <= Len(split) THEN Some(split[n]) ELSE None

\* Option::unwrap_or
UnwrapOr(o, d) == IF o.some THEN o.val ELSE d

\* type KeyCode = u8
U8Max == 255

Digits == <<"0", "1", "2", "3", "4", "5", "6", "7", "8", "9">>

DigitVal(c) == (CHOOSE i \in 1..10 : Digits[i] = c) - 1

RECURSIVE DecValue(_, _)
DecValue(s, acc) ==
    IF s = <<>> THEN acc ELSE DecValue(Tail(s), 10 * acc + DigitVal(Head(s)))

\* str::parse::<u8>: an optional "+", then one or more decimal digits whose
\* value fits in a u8
ParseU8(s) ==
    LET d == IF s # <<>> /\ s[1] = "+" THEN Tail(s) ELSE s
    IN  IF d = <<>> THEN Err("ParseIntError")
        ELSE IF \E i \in 1..Len(d) : \A j \in 1..10 : Digits[j] # d[i]
             THEN Err("ParseIntError")
             ELSE IF DecValue(d, 0) > U8Max
                  THEN Err("ParseIntError")
                  ELSE Ok(DecValue(d, 0))

\* ---------------------------------------------------------------------
\* std::process::Command::output and String::from_utf8
\* ---------------------------------------------------------------------
\* A byte string is a sequence of one-character strings (ASCII bytes) that
\* may contain BadByte, the byte 0xff, which no UTF-8 text contains.
BadByte == "0xff"

\* String::from_utf8
from_utf8(bytes) ==
    IF \E i \in 1..Len(bytes) : bytes[i] = BadByte
    THEN Err("FromUtf8Error")
    ELSE Ok(bytes)

\* io::Result<Output>: the tool could not be launched, or it ran and left an
\* exit status, its standard output and its standard error
LaunchFailed ==
    [launched |-> FALSE, success |-> FALSE, stdout |-> <<>>, stderr |-> <<>>]

Ran(success, stdout, stderr) ==
    [launched |-> TRUE, success |-> success, stdout |-> stdout,
     stderr |-> stderr]

\* No tool has been run
NoOutput == [launched |-> FALSE, success |-> FALSE, stdout |-> <<>>,
             stderr |-> <<"-">>]

\* What a tool may write to its standard error
Stderrs == { <<>>, <<"n","o"," ","d","i","s","p","l","a","y","\n">>,
             <<"n","o",BadByte>> }

\* str::split_once(c): the text before and after the first c
split_once(s, c) ==
    IF \E i \in 1..Len(s) : s[i] = c
    THEN LET i == CHOOSE i \in 1..Len(s) :
                    s[i] = c /\ \A j \in 1..(i - 1) : s[j] # c
         IN  Some(<<SubSeq(s, 1, i - 1), SubSeq(s, i + 1, Len(s))>>)
    ELSE None

\* char::is_whitespace, on the characters that occur in the model
IsWhitespace(c) == c \in {" ", "\t", "\n", "\f", "\r"}

\* str::trim
trim(s) ==
    LET keep == {i \in 1..Len(s) : ~IsWhitespace(s[i])}
    IN  IF keep = {} THEN <<>>
        ELSE SubSeq(s, Nth(keep, 1), Nth(keep, Cardinality(keep)))

\* ---------------------------------------------------------------------
\* pino_xrdb
\* ---------------------------------------------------------------------
Programs  == { <<"d","w","m">>, <<"s","t">> }
Resources == { <<"c","o","l","o","r","1">>, <<"f","o","n","t">> }
Values    == { <<"#","f","f","f">>, <<"#","0","0","0">> }

\* Programs a caller may ask about: the ones above and one that no call ever
\* inserts.
QueryPrograms == Programs \cup { <<"d","m","e","n","u">> }

\* Xrdb::new / Xrdb::default
XrdbNew == [db |-> EmptyMap, univeral |-> EmptyMap]

\* Xrdb::get_prog_mut: creates the program's table when it is absent; the
\* returned &mut is the entry self.db[program] of the result.
get_prog_mut_reset(self, program) ==
    [self EXCEPT !.db = HashMapInsert(self.db, program, EmptyMap)]

get_prog_mut(self, program) ==
    IF program \notin DOMAIN self.db
    THEN [self EXCEPT !.db = HashMapInsert(self.db, program, EmptyMap)]
    ELSE self

\* Xrdb::insert
insert(self, program, res, val) ==
    LET s == get_prog_mut(self, program)
    IN  [s EXCEPT !.db[program] = HashMapInsert(@, res, val)]

\* Xrdb::insert_universal
insert_universal_clobber(self, res, val) ==
    [self EXCEPT !.univeral = HashMapInsert(@, res, val),
                 !.db = [p \in DOMAIN self.db |->
                            IF res \in DOMAIN self.db[p]
                            THEN HashMapInsert(self.db[p], res, val)
                            ELSE self.db[p]]]

insert_universal(self, res, val) ==
    [self EXCEPT !.univeral = HashMapInsert(@, res, val)]

\* Xrdb::query
query_universal_first(self, program, res) ==
    IF res \in DOMAIN self.univeral
    THEN Some(self.univeral[res])
    ELSE IF program \in DOMAIN self.db /\ res \in DOMAIN self.db[program]
         THEN Some(self.db[program][res])
         ELSE None

query_no_fallback(self, program, res) ==
    IF program \in DOMAIN self.db
    THEN HashMapGet(self.db[program], res)
    ELSE HashMapGet(self.univeral, res)

query(self, program, res) ==
    IF program \in DOMAIN self.db /\ res \in DOMAIN self.db[program]
    THEN Some(self.db[program][res])
    ELSE HashMapGet(self.univeral, res)

NoQuery == [program |-> <<>>, res |-> <<>>, result |-> None]

\* What the body of the loop of Xrdb::read does with a line: `continue`, or
\* the call it makes
read_line_untrimmed(line) ==
    LET dot == split_once(line, ".")
        col == split_once(dot.val[2], ":")
    IN  IF ~dot.some THEN [op |-> "continue"]
        ELSE IF ~col.some THEN [op |-> "continue"]
        ELSE IF dot.val[1] = <<"*">>
        THEN [op |-> "insert_universal", program |-> <<"*">>,
              res |-> col.val[1], val |-> col.val[2]]
        ELSE [op |-> "insert", program |-> dot.val[1],
              res |-> col.val[1], val |-> col.val[2]]

read_line(line) ==
    LET dot == split_once(line, ".")
        col == split_once(dot.val[2], ":")
    IN  IF ~dot.some THEN [op |-> "continue"]
        ELSE IF ~col.some THEN [op |-> "continue"]
        ELSE IF trim(dot.val[1]) = <<"*">>
        THEN [op |-> "insert_universal", program |-> <<"*">>,
              res |-> trim(col.val[1]), val |-> trim(col.val[2])]
        ELSE [op |-> "insert", program |-> trim(dot.val[1]),
              res |-> trim(col.val[1]), val |-> trim(col.val[2])]

\* The calls `for line in output_str.lines()` makes, in order
read_calls_break(output_str) ==
    LET ls == lines(output_str)
        did == [i \in 1..Len(ls) |-> read_line(ls[i])]
        stop == {i \in 1..Len(ls) : did[i].op = "continue"}
        upto == IF stop = {} THEN Len(ls) ELSE Nth(stop, 1) - 1
    IN  SubSeq(did, 1, upto)

read_calls(output_str) ==
    LET ls == lines(output_str)
        did == [i \in 1..Len(ls) |-> read_line(ls[i])]
        made(c) == c.op # "continue"
    IN  SelectSeq(did, made)

RECURSIVE make_calls(_, _)
make_calls(self, calls) ==
    IF calls = <<>> THEN self
    ELSE LET c == Head(calls) IN
         make_calls(IF c.op = "insert_universal"
                    THEN insert_universal(self, c.res, c.val)
                    ELSE insert(self, c.program, c.res, c.val),
                    Tail(calls))

\* XrdbError
XrdbErr(e) == [kind |-> "Err", err |-> e]
Errored(text) == [kind |-> "Err", err |-> "Errored", text |-> text]

\* Xrdb::read, given what running the tool gives: the calls it makes on self
\* and what it returns
read(output) ==
    IF ~output.launched
    THEN [calls |-> <<>>, ret |-> XrdbErr("Missing")]
    ELSE IF ~output.success
    THEN [calls |-> <<>>,
          ret |-> IF from_utf8(output.stderr).ok
                  THEN Errored(from_utf8(output.stderr).val)
                  ELSE XrdbErr("OutputMalformed")]
    ELSE IF ~from_utf8(output.stdout).ok
    THEN [calls |-> <<>>, ret |-> XrdbErr("OutputMalformed")]
    ELSE [calls |-> read_calls(from_utf8(output.stdout).val),
          ret |-> [kind |-> "Ok"]]

XrdbIdle ==
    /\ xrdb = XrdbNew
    /\ hist = <<>>
    /\ last_query = NoQuery

ConvIdle ==
    /\ conv_pc = "idle"
    /\ conv_char = None
    /\ conv_sym = Err("unset")
    /\ conv_back = Err("unset")

NoLookup == [call |-> "none"]

ToolIdle ==
    /\ xmodmap_output = NoOutput
    /\ xrdb_output = NoOutput
    /\ read_ret = [kind |-> "none"]

KeyTableIdle ==
    /\ raw_xmodmap = <<>>
    /\ line_no = 0
    /\ key_to_keysym = EmptyMap
    /\ keysym_to_key = EmptyMap
    /\ result = [kind |-> "idle"]
    /\ last_lookup = NoLookup

InitXrdb ==
    /\ XrdbIdle
    /\ ConvIdle
    /\ KeyTableIdle
    /\ ToolIdle

Insert(program, res, val) ==
    /\ Len(hist) < MaxOps
    /\ xrdb' = insert(xrdb, program, res, val)
    /\ hist' = Append(hist, [op |-> "insert", program |-> program,
                             res |-> res, val |-> val])
    /\ UNCHANGED <<last_query, conv_vars, kt_vars, tool_vars>>

InsertUniversal(res, val) ==
    /\ Len(hist) < MaxOps
    /\ xrdb' = insert_universal(xrdb, res, val)
    /\ hist' = Append(hist, [op |-> "insert_universal", program |-> <<"*">>,
                             res |-> res, val |-> val])
    /\ UNCHANGED <<last_query, conv_vars, kt_vars, tool_vars>>

Query(program, res) ==
    /\ last_query' = [program |-> program, res |-> res,
                      result |-> query(xrdb, program, res)]
    /\ UNCHANGED <<xrdb, hist, conv_vars, kt_vars, tool_vars>>

NextXrdb ==
    \/ \E p \in Programs, r \in Resources, v \in Values : Insert(p, r, v)
    \/ \E r \in Resources, v \in Values : InsertUniversal(r, v)
    \/ \E p \in QueryPrograms, r \in Resources : Query(p, r)

SpecXrdb == InitXrdb /\ [][NextXrdb]_vars

\* ---------------------------------------------------------------------
\* pino_xmodmap: KeySym and its conversions
\* ---------------------------------------------------------------------
\* enum KeySym
KeySym ==
  {"KEY_NONE", "KEY_a", "KEY_b", "KEY_c", "KEY_d", "KEY_e", "KEY_f", "KEY_g", "KEY_h",
    "KEY_i", "KEY_j", "KEY_k", "KEY_l", "KEY_m", "KEY_n", "KEY_o", "KEY_p", "KEY_q",
    "KEY_r", "KEY_s", "KEY_t", "KEY_u", "KEY_v", "KEY_w", "KEY_x", "KEY_y", "KEY_z",
    "KEY_A", "KEY_B", "KEY_C", "KEY_D", "KEY_E", "KEY_F", "KEY_G", "KEY_H", "KEY_I",
    "KEY_J", "KEY_K", "KEY_L", "KEY_M", "KEY_N", "KEY_O", "KEY_P", "KEY_Q", "KEY_R",
    "KEY_S", "KEY_T", "KEY_U", "KEY_V", "KEY_W", "KEY_X", "KEY_Y", "KEY_Z", "KEY_SPACE",
    "KEY_RETURN", "KEY_BACKSPACE", "KEY_TAB", "KEY_ESCAPE", "KEY_GRAVE", "KEY_TILDE",
    "KEY_0", "KEY_1", "KEY_2", "KEY_3", "KEY_4", "KEY_5", "KEY_6", "KEY_7", "KEY_8",
    "KEY_9", "KEY_EXCLAMATION", "KEY_AT", "KEY_NUMBERSIGN", "KEY_DOLLAR", "KEY_PERCENT",
    "KEY_CIRCUM", "KEY_AMPERSAND", "KEY_ASTERISK", "KEY_PARENLEFT", "KEY_PARENRIGHT",
    "KEY_MINUS", "KEY_UNDERSCORE", "KEY_PLUS", "KEY_EQUAL", "KEY_BRACKETLEFT",
    "KEY_BRACKETRIGHT", "KEY_BRACELEFT", "KEY_BRACERIGHT", "KEY_SEMICOLON", "KEY_COLON",
    "KEY_APOSTROPHE", "KEY_DOUBLEQUOTE", "KEY_BACKSLASH", "KEY_BAR", "KEY_COMMA",
    "KEY_LESS", "KEY_PERIOD", "KEY_GREATER", "KEY_SLASH", "KEY_QUESTION", "KEY_F1",
    "KEY_F2", "KEY_F3", "KEY_F4", "KEY_F5", "KEY_F6", "KEY_F7", "KEY_F8", "KEY_F9",
    "KEY_F10", "KEY_F11", "KEY_F12"}

\* impl TryFrom<char> for KeySym: the arms of the match, as <<char, KeySym>>
CharToKeySymArms ==
  {<<32, "KEY_SPACE">>, <<97, "KEY_a">>, <<98, "KEY_b">>, <<99, "KEY_c">>,
    <<100, "KEY_d">>, <<101, "KEY_e">>, <<102, "KEY_f">>, <<103, "KEY_g">>,
    <<104, "KEY_h">>, <<105, "KEY_i">>, <<106, "KEY_j">>, <<107, "KEY_k">>,
    <<108, "KEY_l">>, <<109, "KEY_m">>, <<110, "KEY_n">>, <<111, "KEY_o">>,
    <<112, "KEY_p">>, <<113, "KEY_q">>, <<114, "KEY_r">>, <<115, "KEY_s">>,
    <<116, "KEY_t">>, <<117, "KEY_u">>, <<118, "KEY_v">>, <<119, "KEY_w">>,
    <<120, "KEY_x">>, <<121, "KEY_y">>, <<122, "KEY_z">>, <<65, "KEY_A">>, <<66, "KEY_B">>,
    <<67, "KEY_C">>, <<68, "KEY_D">>, <<69, "KEY_E">>, <<70, "KEY_F">>, <<71, "KEY_G">>,
    <<72, "KEY_H">>, <<73, "KEY_I">>, <<74, "KEY_J">>, <<75, "KEY_K">>, <<76, "KEY_L">>,
    <<77, "KEY_M">>, <<78, "KEY_N">>, <<79, "KEY_O">>, <<80, "KEY_P">>, <<81, "KEY_Q">>,
    <<82, "KEY_R">>, <<83, "KEY_S">>, <<84, "KEY_T">>, <<85, "KEY_U">>, <<86, "KEY_V">>,
    <<87, "KEY_W">>, <<88, "KEY_X">>, <<89, "KEY_Y">>, <<90, "KEY_Z">>, <<48, "KEY_0">>,
    <<49, "KEY_1">>, <<50, "KEY_2">>, <<51, "KEY_3">>, <<52, "KEY_4">>, <<53, "KEY_5">>,
    <<54, "KEY_6">>, <<55, "KEY_7">>, <<56, "KEY_8">>, <<57, "KEY_9">>,
    <<33, "KEY_EXCLAMATION">>, <<64, "KEY_AT">>, <<35, "KEY_NUMBERSIGN">>,
    <<36, "KEY_DOLLAR">>, <<37, "KEY_PERCENT">>, <<94, "KEY_CIRCUM">>,
    <<38, "KEY_AMPERSAND">>, <<42, "KEY_ASTERISK">>, <<40, "KEY_PARENLEFT">>,
    <<41, "KEY_PARENRIGHT">>, <<45, "KEY_MINUS">>, <<95, "KEY_UNDERSCORE">>,
    <<43, "KEY_PLUS">>, <<61, "KEY_EQUAL">>, <<91, "KEY_BRACKETLEFT">>,
    <<93, "KEY_BRACKETRIGHT">>, <<123, "KEY_BRACELEFT">>, <<125, "KEY_BRACERIGHT">>,
    <<59, "KEY_SEMICOLON">>, <<58, "KEY_COLON">>, <<39, "KEY_APOSTROPHE">>,
    <<34, "KEY_DOUBLEQUOTE">>, <<92, "KEY_BACKSLASH">>, <<124, "KEY_BAR">>,
    <<44, "KEY_COMMA">>, <<60, "KEY_LESS">>, <<46, "KEY_PERIOD">>, <<62, "KEY_GREATER">>,
    <<47, "KEY_SLASH">>, <<63, "KEY_QUESTION">>, <<96, "KEY_GRAVE">>, <<126, "KEY_TILDE">>}

\* impl TryFrom<KeySym> for char: the arms of the match, as <<KeySym, u32>>
KeySymToCharArms ==
  {<<"KEY_BACKSPACE", 8>>, <<"KEY_TAB", 9>>, <<"KEY_ESCAPE", 27>>, <<"KEY_SPACE", 32>>,
    <<"KEY_EXCLAMATION", 33>>, <<"KEY_DOUBLEQUOTE", 34>>, <<"KEY_NUMBERSIGN", 35>>,
    <<"KEY_DOLLAR", 36>>, <<"KEY_PERCENT", 37>>, <<"KEY_AMPERSAND", 38>>,
    <<"KEY_APOSTROPHE", 39>>, <<"KEY_PARENLEFT", 40>>, <<"KEY_PARENRIGHT", 41>>,
    <<"KEY_ASTERISK", 42>>, <<"KEY_PLUS", 43>>, <<"KEY_COMMA", 44>>, <<"KEY_MINUS", 45>>,
    <<"KEY_PERIOD", 46>>, <<"KEY_SLASH", 47>>, <<"KEY_0", 48>>, <<"KEY_1", 49>>,
    <<"KEY_2", 50>>, <<"KEY_3", 51>>, <<"KEY_4", 52>>, <<"KEY_5", 53>>, <<"KEY_6", 54>>,
    <<"KEY_7", 55>>, <<"KEY_8", 56>>, <<"KEY_9", 57>>, <<"KEY_COLON", 58>>,
    <<"KEY_SEMICOLON", 59>>, <<"KEY_LESS", 60>>, <<"KEY_EQUAL", 61>>,
    <<"KEY_GREATER", 62>>, <<"KEY_QUESTION", 63>>, <<"KEY_AT", 64>>, <<"KEY_A", 65>>,
    <<"KEY_B", 66>>, <<"KEY_C", 67>>, <<"KEY_D", 68>>, <<"KEY_E", 69>>, <<"KEY_F", 70>>,
    <<"KEY_G", 71>>, <<"KEY_H", 72>>, <<"KEY_I", 73>>, <<"KEY_J", 74>>, <<"KEY_K", 75>>,
    <<"KEY_L", 76>>, <<"KEY_M", 77>>, <<"KEY_N", 78>>, <<"KEY_O", 79>>, <<"KEY_P", 80>>,
    <<"KEY_Q", 81>>, <<"KEY_R", 82>>, <<"KEY_S", 83>>, <<"KEY_T", 84>>, <<"KEY_U", 85>>,
    <<"KEY_V", 86>>, <<"KEY_W", 87>>, <<"KEY_X", 88>>, <<"KEY_Y", 89>>, <<"KEY_Z", 90>>,
    <<"KEY_a", 97>>, <<"KEY_b", 98>>, <<"KEY_c", 99>>, <<"KEY_d", 100>>, <<"KEY_e", 101>>,
    <<"KEY_f", 102>>, <<"KEY_g", 103>>, <<"KEY_h", 104>>, <<"KEY_i", 105>>,
    <<"KEY_j", 106>>, <<"KEY_k", 107>>, <<"KEY_l", 108>>, <<"KEY_m", 109>>,
    <<"KEY_n", 110>>, <<"KEY_o", 111>>, <<"KEY_p", 112>>, <<"KEY_q", 113>>,
    <<"KEY_r", 114>>, <<"KEY_s", 115>>, <<"KEY_t", 116>>, <<"KEY_u", 117>>,
    <<"KEY_v", 118>>, <<"KEY_w", 119>>, <<"KEY_x", 120>>, <<"KEY_y", 121>>,
    <<"KEY_z", 122>>, <<"KEY_BRACELEFT", 123>>, <<"KEY_BAR", 124>>,
    <<"KEY_BRACERIGHT", 125>>, <<"KEY_TILDE", 126>>}

Chars == 0..MaxChar

\* char::from_u32: None for a surrogate and above the last code point
CharFromU32(key) ==
    IF (key >= 0 /\ key < 55296) \/ (key > 57343 /\ key <= 1114111)
    THEN Some(key)
    ELSE None

\* KeySym::try_from(value: char)
KeySymTryFromChar(value) ==
    IF \E arm \in CharToKeySymArms : arm[1] = value
    THEN Ok((CHOOSE arm \in CharToKeySymArms : arm[1] = value)[2])
    ELSE Err("()")

\* char::try_from(value: KeySym)
CharTryFromKeySym_WithReturn(value) ==
    IF value = "KEY_RETURN"
    THEN Ok(13)
    ELSE IF \E arm \in KeySymToCharArms : arm[1] = value
         THEN LET key == (CHOOSE arm \in KeySymToCharArms : arm[1] = value)[2]
                  c == CharFromU32(key)
              IN  IF c.some THEN Ok(c.val) ELSE Err("()")
         ELSE Err("()")

CharTryFromKeySym(value) ==
    IF \E arm \in KeySymToCharArms : arm[1] = value
    THEN LET key == (CHOOSE arm \in KeySymToCharArms : arm[1] = value)[2]
             c == CharFromU32(key)
         IN  IF c.some THEN Ok(c.val) ELSE Err("()")
    ELSE Err("()")

\* A conversion run starts from a char (converted to a KeySym and back) or
\* from a KeySym (converted to a char).
InitKeySym ==
    /\ XrdbIdle
    /\ KeyTableIdle
    /\ ToolIdle
    /\ conv_back = Err("unset")
    /\ \/ /\ conv_pc = "char"
          /\ conv_char \in {Some(c) : c \in Chars}
          /\ conv_sym = Err("unset")
       \/ /\ conv_pc = "sym"
          /\ conv_char = None
          /\ conv_sym \in {Ok(k) : k \in KeySym}

CharToKeySym ==
    /\ conv_pc = "char"
    /\ conv_sym' = KeySymTryFromChar(conv_char.val)
    /\ conv_pc' = IF conv_sym'.ok THEN "sym" ELSE "done"
    /\ UNCHANGED <<conv_char, conv_back, xrdb_vars, kt_vars, tool_vars>>

KeySymToChar ==
    /\ conv_pc = "sym"
    /\ conv_back' = CharTryFromKeySym(conv_sym.val)
    /\ conv_pc' = "done"
    /\ UNCHANGED <<conv_char, conv_sym, xrdb_vars, kt_vars, tool_vars>>

NextKeySym ==
    \/ CharToKeySym
    \/ KeySymToChar

SpecKeySym == InitKeySym /\ [][NextKeySym]_vars

\* ---------------------------------------------------------------------
\* pino_xmodmap: KeyTable
\* ---------------------------------------------------------------------
\* enum Modifier
Modifier ==
    {"Key", "ShiftKey", "ModeSwitchKey", "ModeSwitchShiftKey",
     "ISOLevel3ShiftKey", "ISOLevel3ShiftShiftKey"}

\* impl FromStr for KeySym: the arms of the match, as <<name, KeySym>>
FromStrArms ==
  {<<<<"a">>, "KEY_a">>, <<<<"b">>, "KEY_b">>, <<<<"c">>, "KEY_c">>, <<<<"d">>, "KEY_d">>,
    <<<<"e">>, "KEY_e">>, <<<<"f">>, "KEY_f">>, <<<<"g">>, "KEY_g">>, <<<<"h">>, "KEY_h">>,
    <<<<"i">>, "KEY_i">>, <<<<"j">>, "KEY_j">>, <<<<"k">>, "KEY_k">>, <<<<"l">>, "KEY_l">>,
    <<<<"m">>, "KEY_m">>, <<<<"n">>, "KEY_n">>, <<<<"o">>, "KEY_o">>, <<<<"p">>, "KEY_p">>,
    <<<<"q">>, "KEY_q">>, <<<<"r">>, "KEY_r">>, <<<<"s">>, "KEY_s">>, <<<<"t">>, "KEY_t">>,
    <<<<"u">>, "KEY_u">>, <<<<"v">>, "KEY_v">>, <<<<"w">>, "KEY_w">>, <<<<"x">>, "KEY_x">>,
    <<<<"y">>, "KEY_y">>, <<<<"z">>, "KEY_z">>, <<<<"A">>, "KEY_A">>, <<<<"B">>, "KEY_B">>,
    <<<<"C">>, "KEY_C">>, <<<<"D">>, "KEY_D">>, <<<<"E">>, "KEY_E">>, <<<<"F">>, "KEY_F">>,
    <<<<"G">>, "KEY_G">>, <<<<"H">>, "KEY_H">>, <<<<"I">>, "KEY_I">>, <<<<"J">>, "KEY_J">>,
    <<<<"K">>, "KEY_K">>, <<<<"L">>, "KEY_L">>, <<<<"M">>, "KEY_M">>, <<<<"N">>, "KEY_N">>,
    <<<<"O">>, "KEY_O">>, <<<<"P">>, "KEY_P">>, <<<<"Q">>, "KEY_Q">>, <<<<"R">>, "KEY_R">>,
    <<<<"S">>, "KEY_S">>, <<<<"T">>, "KEY_T">>, <<<<"U">>, "KEY_U">>, <<<<"V">>, "KEY_V">>,
    <<<<"W">>, "KEY_W">>, <<<<"X">>, "KEY_X">>, <<<<"Y">>, "KEY_Y">>, <<<<"Z">>, "KEY_Z">>,
    <<<<"0">>, "KEY_0">>, <<<<"1">>, "KEY_1">>, <<<<"2">>, "KEY_2">>, <<<<"3">>, "KEY_3">>,
    <<<<"4">>, "KEY_4">>, <<<<"5">>, "KEY_5">>, <<<<"6">>, "KEY_6">>, <<<<"7">>, "KEY_7">>,
    <<<<"8">>, "KEY_8">>, <<<<"9">>, "KEY_9">>,
    <<<<"e","x","c","l","a","m">>, "KEY_EXCLAMATION">>, <<<<"a","t">>, "KEY_AT">>,
    <<<<"n","u","m","b","e","r","s","i","g","n">>, "KEY_NUMBERSIGN">>,
    <<<<"d","o","l","l","a","r">>, "KEY_DOLLAR">>,
    <<<<"p","e","r","c","e","n","t">>, "KEY_PERCENT">>,
    <<<<"a","s","c","i","i","c","i","r","c","u","m">>, "KEY_CIRCUM">>,
    <<<<"a","m","p","e","r","s","a","n","d">>, "KEY_AMPERSAND">>,
    <<<<"a","s","t","e","r","i","s","k">>, "KEY_ASTERISK">>,
    <<<<"p","a","r","e","n","l","e","f","t">>, "KEY_PARENLEFT">>,
    <<<<"p","a","r","e","n","r","i","g","h","t">>, "KEY_PARENRIGHT">>,
    <<<<"m","i","n","u","s">>, "KEY_MINUS">>,
    <<<<"u","n","d","e","r","s","c","o","r","e">>, "KEY_UNDERSCORE">>,
    <<<<"p","l","u","s">>, "KEY_PLUS">>, <<<<"e","q","u","a","l">>, "KEY_EQUAL">>,
    <<<<"b","r","a","c","k","e","t","l","e","f","t">>, "KEY_BRACKETLEFT">>,
    <<<<"b","r","a","c","k","e","t","r","i","g","h","t">>, "KEY_BRACKETRIGHT">>,
    <<<<"b","r","a","c","e","l","e","f","t">>, "KEY_BRACELEFT">>,
    <<<<"b","r","a","c","e","r","i","g","h","t">>, "KEY_BRACERIGHT">>,
    <<<<"s","e","m","i","c","o","l","o","n">>, "KEY_SEMICOLON">>,
    <<<<"c","o","l","o","n">>, "KEY_COLON">>,
    <<<<"a","p","o","s","t","r","o","p","h","e">>, "KEY_APOSTROPHE">>,
    <<<<"q","u","o","t","e","d","b","l">>, "KEY_DOUBLEQUOTE">>,
    <<<<"b","a","c","k","s","l","a","s","h">>, "KEY_BACKSLASH">>,
    <<<<"b","a","r">>, "KEY_BAR">>, <<<<"c","o","m","m","a">>, "KEY_COMMA">>,
    <<<<"l","e","s","s">>, "KEY_LESS">>, <<<<"p","e","r","i","o","d">>, "KEY_PERIOD">>,
    <<<<"g","r","e","a","t","e","r">>, "KEY_GREATER">>,
    <<<<"s","l","a","s","h">>, "KEY_SLASH">>,
    <<<<"q","u","e","s","t","i","o","n">>, "KEY_QUESTION">>,
    <<<<"g","r","a","v","e">>, "KEY_GRAVE">>,
    <<<<"a","s","c","i","i","t","i","l","d","e">>, "KEY_TILDE">>,
    <<<<"s","p","a","c","e">>, "KEY_SPACE">>,
    <<<<"R","e","t","u","r","n">>, "KEY_RETURN">>,
    <<<<"B","a","c","k","S","p","a","c","e">>, "KEY_BACKSPACE">>,
    <<<<"T","a","b">>, "KEY_TAB">>, <<<<"E","s","c","a","p","e">>, "KEY_ESCAPE">>,
    <<<<"N","o","S","y","m","b","o","l">>, "KEY_NONE">>, <<<<"F","1">>, "KEY_F1">>,
    <<<<"F","2">>, "KEY_F2">>, <<<<"F","3">>, "KEY_F3">>, <<<<"F","4">>, "KEY_F4">>,
    <<<<"F","5">>, "KEY_F5">>, <<<<"F","6">>, "KEY_F6">>, <<<<"F","7">>, "KEY_F7">>,
    <<<<"F","8">>, "KEY_F8">>, <<<<"F","9">>, "KEY_F9">>, <<<<"F","1","0">>, "KEY_F10">>,
    <<<<"F","1","1">>, "KEY_F11">>, <<<<"F","1","2">>, "KEY_F12">>}

\* KeySym::from_str
from_str(input) ==
    IF \E arm \in FromStrArms : arm[1] = input
    THEN Ok((CHOOSE arm \in FromStrArms : arm[1] = input)[2])
    ELSE Err("()")

\* Result::unwrap_or
ResultUnwrapOr(r, d) == IF r.ok THEN r.val ELSE d

\* The four inserts that end the loop body of KeyTable::new
record_cells_swapped(t, keycode, a, b) ==
    [key_to_keysym |->
        HashMapInsert(HashMapInsert(t.key_to_keysym, <<"Key", keycode>>, b),
                      <<"ShiftKey", keycode>>, a),
     keysym_to_key |->
        HashMapInsert(HashMapInsert(t.keysym_to_key, a, <<"Key", keycode>>),
                      b, <<"Key", keycode>>)]

record_cells_first_wins(t, keycode, a, b) ==
    LET keep(m, k, v) == IF k \in DOMAIN m THEN m ELSE HashMapInsert(m, k, v)
    IN  [key_to_keysym |->
            HashMapInsert(HashMapInsert(t.key_to_keysym, <<"Key", keycode>>, a),
                          <<"ShiftKey", keycode>>, b),
         keysym_to_key |->
            keep(keep(t.keysym_to_key, a, <<"Key", keycode>>),
                 b, <<"Key", keycode>>)]

record_cells(t, keycode, a, b) ==
    [key_to_keysym |->
        HashMapInsert(HashMapInsert(t.key_to_keysym, <<"Key", keycode>>, a),
                      <<"ShiftKey", keycode>>, b),
     keysym_to_key |->
        HashMapInsert(HashMapInsert(t.keysym_to_key, a, <<"Key", keycode>>),
                      b, <<"Key", keycode>>)]

kw_keycode == <<"k", "e", "y", "c", "o", "d", "e">>

\* What the statements of the loop body before the inserts do with a line: a
\* failed assert_eq! panics, `?` returns the error, otherwise the key code and
\* the two symbols are bound.
parse_line_lenient(l) ==
    LET split == split_ascii_whitespace(l)
        code  == IF NextTok(split, 2).some
                 THEN ParseU8(NextTok(split, 2).val)
                 ELSE Ok(0)
    IN  IF NextTok(split, 1) # Some(kw_keycode)
        THEN [kind |-> "panic"]
        ELSE IF ~code.ok
        THEN [kind |-> "Err", err |-> "InvalidFormat"]
        ELSE IF NextTok(split, 3) # Some(<<"=">>)
        THEN [kind |-> "panic"]
        ELSE [kind |-> "cells",
              keycode |-> code.val,
              a |-> ResultUnwrapOr(from_str(UnwrapOr(NextTok(split, 4), <<>>)),
                                   "KEY_NONE"),
              b |-> ResultUnwrapOr(from_str(UnwrapOr(NextTok(split, 5), <<>>)),
                                   "KEY_NONE")]

parse_line(l) ==
    LET split == split_ascii_whitespace(l)
        code  == IF NextTok(split, 2).some
                 THEN ParseU8(NextTok(split, 2).val)
                 ELSE Err("InvalidFormat")
    IN  IF NextTok(split, 1) # Some(kw_keycode)
        THEN [kind |-> "panic"]
        ELSE IF ~code.ok
        THEN [kind |-> "Err", err |-> "InvalidFormat"]
        ELSE IF NextTok(split, 3) # Some(<<"=">>)
        THEN [kind |-> "panic"]
        ELSE [kind |-> "cells",
              keycode |-> code.val,
              a |-> ResultUnwrapOr(from_str(UnwrapOr(NextTok(split, 4), <<>>)),
                                   "KEY_NONE"),
              b |-> ResultUnwrapOr(from_str(UnwrapOr(NextTok(split, 5), <<>>)),
                                   "KEY_NONE")]

\* KeyTable::get_keysym
get_keysym(self, modifier, code) ==
    IF <<modifier, code>> \in DOMAIN self.key_to_keysym
    THEN Ok(self.key_to_keysym[<<modifier, code>>])
    ELSE Err("NonExistentKeyCode")

\* KeyTable::get_key
get_key(self, keysym) ==
    IF keysym \in DOMAIN self.keysym_to_key
    THEN Ok(self.keysym_to_key[keysym])
    ELSE Err("NonExistentKeySym")

\* Keymap lines the external tool's output is drawn from.
sp == <<" ">>
L_38_a_A     == kw_keycode \o sp \o <<"3","8">> \o sp \o <<"=">> \o sp \o <<"a">> \o sp \o <<"A">>
L_40_a       == kw_keycode \o sp \o <<"4","0">> \o sp \o <<"=">> \o sp \o <<"a">>
L_40_A_a     == kw_keycode \o sp \o <<"4","0">> \o sp \o <<"=">> \o sp \o <<"A">> \o sp \o <<"a">>
L_255_F1     == kw_keycode \o sp \o <<"2","5","5">> \o sp \o <<"=">> \o sp \o <<"F","1">>
                    \o sp \o <<"F","1">> \o sp \o <<"F","1">>
L_38_unknown == kw_keycode \o sp \o <<"3","8">> \o sp \o <<"=">> \o sp
                    \o <<"S","h","i","f","t","_","L">> \o sp
                    \o <<"N","o","S","y","m","b","o","l">> \o sp
                    \o <<"S","h","i","f","t","_","L">>
L_9_nosyms   == kw_keycode \o sp \o <<"9">> \o sp \o <<"=">>
L_038_spaced == <<"\t">> \o kw_keycode \o sp \o sp \o <<"0","3","8">> \o sp \o <<"=">>
                    \o <<"\t">> \o <<"e","x","c","l","a","m">> \o sp \o sp
                    \o <<"a","t">> \o sp
L_nocode     == kw_keycode \o sp \o <<"=">> \o sp \o <<"a">> \o sp \o <<"A">>
L_onlykw     == kw_keycode
L_256        == kw_keycode \o sp \o <<"2","5","6">> \o sp \o <<"=">> \o sp \o <<"a">> \o sp \o <<"A">>
L_keysym     == <<"k","e","y","s","y","m">> \o sp \o <<"3","8">> \o sp \o <<"=">> \o sp
                    \o <<"a">> \o sp \o <<"A">>
L_empty      == <<>>
L_noequals   == kw_keycode \o sp \o <<"3","8">> \o sp \o <<"a">> \o sp \o <<"A">>
L_38_only    == kw_keycode \o sp \o <<"3","8">>

\* Lines of the form `keycode <0-255> = [<name> ...]`, with what each one says:
\* <<line, key code, unmodified-column symbol, shift-column symbol>>
WellFormed ==
    { <<L_38_a_A,     38,  "KEY_a",           "KEY_A">>,
      <<L_40_a,       40,  "KEY_a",           "KEY_NONE">>,
      <<L_40_A_a,     40,  "KEY_A",           "KEY_a">>,
      <<L_255_F1,     255, "KEY_F1",          "KEY_F1">>,
      <<L_38_unknown, 38,  "KEY_NONE",        "KEY_NONE">>,
      <<L_9_nosyms,   9,   "KEY_NONE",        "KEY_NONE">>,
      <<L_038_spaced, 38,  "KEY_EXCLAMATION", "KEY_AT">> }

WellFormedLines == {w[1] : w \in WellFormed}

\* Lines that begin with `keycode` and have no key code after it
MissingKeyCodeLines == {L_nocode, L_onlykw}

\* A key code that is not a u8
BadKeyCodeLines == {L_256}

\* Lines whose first token is not `keycode`, or without `=` after the key code
StructurallyMalformedLines == {L_keysym, L_empty, L_noequals, L_38_only}

KeymapLines ==
    WellFormedLines \cup MissingKeyCodeLines \cup BadKeyCodeLines
        \cup StructurallyMalformedLines

\* The tool ends every line with "\n".
RECURSIVE Texts(_)
Texts(n) ==
    IF n = 0 THEN {<<>>}
    ELSE Texts(n - 1) \cup
         {t \o l \o <<"\n">> : t \in Texts(n - 1), l \in KeymapLines}

LookupCodes == {0, 38}
LookupSyms  == {"KEY_a", "KEY_A", "KEY_z"}

\* KeyTable::new, from the point where the output of the tool is captured.
InitKeyTable ==
    /\ XrdbIdle
    /\ ConvIdle
    /\ ToolIdle
    /\ raw_xmodmap \in Texts(MaxLines)
    /\ line_no = 0
    /\ key_to_keysym = EmptyMap
    /\ keysym_to_key = EmptyMap
    /\ result = [kind |-> "running"]
    /\ last_lookup = NoLookup

\* One iteration of `for l in raw_xmodmap.lines()`
ParseLine ==
    /\ result.kind = "running"
    /\ line_no < Len(lines(raw_xmodmap))
    /\ LET l == lines(raw_xmodmap)[line_no + 1]
           parsed == parse_line(l)
           t == record_cells([key_to_keysym |-> key_to_keysym,
                              keysym_to_key |-> keysym_to_key],
                             parsed.keycode, parsed.a, parsed.b)
       IN  IF parsed.kind = "cells"
           THEN /\ key_to_keysym' = t.key_to_keysym
                /\ keysym_to_key' = t.keysym_to_key
                /\ result' = result
           ELSE /\ key_to_keysym' = EmptyMap
                /\ keysym_to_key' = EmptyMap
                /\ result' = parsed
    /\ line_no' = line_no + 1
    /\ UNCHANGED <<raw_xmodmap, last_lookup, xrdb_vars, conv_vars, tool_vars>>

\* The loop is over: Ok(KeyTable { key_to_keysym, keysym_to_key })
ReturnTable ==
    /\ result.kind = "running"
    /\ line_no = Len(lines(raw_xmodmap))
    /\ result' = [kind |-> "Ok",
                  table |-> [key_to_keysym |-> key_to_keysym,
                             keysym_to_key |-> keysym_to_key]]
    /\ key_to_keysym' = EmptyMap
    /\ keysym_to_key' = EmptyMap
    /\ UNCHANGED <<raw_xmodmap, line_no, last_lookup, xrdb_vars, conv_vars, tool_vars>>

GetKeysym(modifier, code) ==
    /\ result.kind = "Ok"
    /\ last_lookup' = [call |-> "get_keysym", modifier |-> modifier,
                       code |-> code,
                       ret |-> get_keysym(result.table, modifier, code)]
    /\ UNCHANGED <<raw_xmodmap, line_no, key_to_keysym, keysym_to_key, result,
                   xrdb_vars, conv_vars, tool_vars>>

GetKey(keysym) ==
    /\ result.kind = "Ok"
    /\ last_lookup' = [call |-> "get_key", keysym |-> keysym,
                       ret |-> get_key(result.table, keysym)]
    /\ UNCHANGED <<raw_xmodmap, line_no, key_to_keysym, keysym_to_key, result,
                   xrdb_vars, conv_vars, tool_vars>>

NextKeyTable ==
    \/ ParseLine
    \/ ReturnTable
    \/ \E m \in Modifier, c \in LookupCodes : GetKeysym(m, c)
    \/ \E k \in LookupSyms : GetKey(k)

SpecKeyTable == InitKeyTable /\ [][NextKeyTable]_vars

\* ---------------------------------------------------------------------
\* Construction from the external tools
\* ---------------------------------------------------------------------
\* Resource lines the output of `xrdb -query` is drawn from.
R_univ_color  == <<"*",".","c","o","l","o","r","1",":","#","f","f","f">>
R_dwm_color   == <<"d","w","m",".","c","o","l","o","r","1",":","#","0","0","0">>
R_spaced      == <<" "," ","*"," ","."," ","f","o","n","t"," ",":","\t","m","o","n","o"," ">>
R_st_spaced   == <<"\t","s","t"," ",".","c","o","l","o","r","1"," ",":"," "," ","#","0","0","0">>
R_multi       == <<"s","t",".","f","o","n","t",".","s","i","z","e",":","1",":","2">>
R_nocolon     == <<"d","w","m",".","c","o","l","o","r","1">>
R_nodot       == <<"c","o","l","o","r","1",":","#","f","f","f">>
R_colon_first == <<"d","w","m",":","c","o","l","o","r","1",".","x">>
R_empty       == <<>>

ResourceLines ==
    {R_univ_color, R_dwm_color, R_spaced, R_st_spaced, R_multi,
     R_nocolon, R_nodot, R_colon_first, R_empty}

\* The tool ends every line with "\n".
RECURSIVE ResTexts(_)
ResTexts(n) ==
    IF n = 0 THEN {<<>>}
    ELSE ResTexts(n - 1) \cup
         {t \o l \o <<"\n">> : t \in ResTexts(n - 1), l \in ResourceLines}

\* What running a tool may give, its standard output being one of texts or
\* bytes that are not UTF-8
Outputs(texts) ==
    {LaunchFailed} \cup
    {Ran(ok, out, err) : ok \in BOOLEAN,
                         out \in texts \cup {<<"a", BadByte, "\n">>},
                         err \in Stderrs}

\* KeyTable::new up to the loop: the tool is run and its output decoded
RunXmodmap ==
    /\ result.kind = "spawn"
    /\ IF ~xmodmap_output.launched
       THEN /\ result' = [kind |-> "Err", err |-> "XmodmapRunError"]
            /\ UNCHANGED raw_xmodmap
       ELSE IF ~from_utf8(xmodmap_output.stdout).ok
       THEN /\ result' = [kind |-> "Err", err |-> "XmodmapRunError"]
            /\ UNCHANGED raw_xmodmap
       ELSE /\ result' = [kind |-> "running"]
            /\ raw_xmodmap' = from_utf8(xmodmap_output.stdout).val
    /\ UNCHANGED <<line_no, key_to_keysym, keysym_to_key, last_lookup,
                   xmodmap_output, xrdb_output, read_ret, xrdb_vars, conv_vars>>

\* Xrdb::read
ReadXrdb ==
    /\ read_ret.kind = "none"
    /\ LET r == read(xrdb_output) IN
       /\ xrdb' = make_calls(xrdb, r.calls)
       /\ hist' = hist \o r.calls
       /\ read_ret' = r.ret
    /\ UNCHANGED <<last_query, xmodmap_output, xrdb_output, conv_vars, kt_vars>>

\* Both constructions, each from whatever its tool gives.
InitTools ==
    /\ XrdbIdle
    /\ ConvIdle
    /\ raw_xmodmap = <<>>
    /\ line_no = 0
    /\ key_to_keysym = EmptyMap
    /\ keysym_to_key = EmptyMap
    /\ result = [kind |-> "spawn"]
    /\ last_lookup = NoLookup
    /\ xmodmap_output \in Outputs(Texts(1))
    /\ xrdb_output \in Outputs(ResTexts(1))
    /\ read_ret = [kind |-> "none"]

NextTools ==
    \/ RunXmodmap
    \/ ParseLine
    \/ ReturnTable
    \/ ReadXrdb

SpecTools == InitTools /\ [][NextTools]_vars

\* Xrdb::read on a new store, the tool having succeeded, and queries.
ReadPrograms  == QueryPrograms
ReadResources == Resources \cup { <<"f","o","n","t",".","s","i","z","e">> }

InitXrdbRead ==
    /\ XrdbIdle
    /\ ConvIdle
    /\ KeyTableIdle
    /\ xmodmap_output = NoOutput
    /\ xrdb_output \in {Ran(TRUE, t, <<>>) : t \in ResTexts(MaxResLines)}
    /\ read_ret = [kind |-> "none"]

NextXrdbRead ==
    \/ ReadXrdb
    \/ \E p \in ReadPrograms, r \in ReadResources : Query(p, r)

SpecXrdbRead == InitXrdbRead /\ [][NextXrdbRead]_vars

\* ---------------------------------------------------------------------
\* Properties of the KeySym conversions
\* ---------------------------------------------------------------------
\* C5: when a char converts to a KeySym, converting that KeySym back
\* succeeds and yields the char.
C5_RoundTrip ==
    (conv_pc = "done" /\ conv_char.some /\ conv_sym.ok) =>
        conv_back = Ok(conv_char.val)

\* The KeySyms outside the printable subset: the sentinel, the whitespace and
\* control keys other than space, and the function keys.
NonPrintable ==
    {"KEY_NONE", "KEY_RETURN", "KEY_BACKSPACE", "KEY_TAB", "KEY_ESCAPE",
     "KEY_F1", "KEY_F2", "KEY_F3", "KEY_F4", "KEY_F5", "KEY_F6", "KEY_F7",
     "KEY_F8", "KEY_F9", "KEY_F10", "KEY_F11", "KEY_F12"}

\* C10 as stated: converting a KeySym outside the printable subset to a char
\* fails.
C10_NonPrintableFails ==
    (conv_pc = "done" /\ conv_sym.ok /\ conv_sym.val \in NonPrintable) =>
        ~conv_back.ok

\* C10: converting a KeySym outside the printable subset to a char fails,
\* except for BackSpace, Tab and Escape, which convert to the control
\* characters 0x08, 0x09 and 0x1b; it fails for F1..F12, Return and the
\* sentinel.
C10_NonPrintableFailsButControls ==
    (conv_pc = "done" /\ conv_sym.ok /\ conv_sym.val \in NonPrintable) =>
        /\ conv_sym.val = "KEY_BACKSPACE" => conv_back = Ok(8)
        /\ conv_sym.val = "KEY_TAB" => conv_back = Ok(9)
        /\ conv_sym.val = "KEY_ESCAPE" => conv_back = Ok(27)
        /\ conv_sym.val \notin {"KEY_BACKSPACE", "KEY_TAB", "KEY_ESCAPE"} =>
              ~conv_back.ok

\* The conversion of the function key F5 has run and failed.
C10_Witness ==
    /\ conv_pc = "done"
    /\ conv_sym = Ok("KEY_F5")
    /\ ~conv_back.ok

\* ---------------------------------------------------------------------
\* Properties of the resource store
\* ---------------------------------------------------------------------
\* The calls of hist, by index, that wrote the program-specific pair (p, r),
\* and the ones that wrote the universal resource r.
SpecificCalls(p, r) ==
    {i \in 1..Len(hist) :
        hist[i].op = "insert" /\ hist[i].program = p /\ hist[i].res = r}

UniversalCalls(r) ==
    {i \in 1..Len(hist) : hist[i].op = "insert_universal" /\ hist[i].res = r}

Latest(S) == CHOOSE i \in S : \A j \in S : j <= i

LastCall == hist[Len(hist)]

\* C1: whenever some insert(p, r, _) was made, query(p, r) returns the value
\* of the most recent such insert, whatever universal values exist and
\* whenever they were inserted.
C1_SpecificWins ==
    \A p \in QueryPrograms, r \in Resources :
        SpecificCalls(p, r) # {} =>
            query(xrdb, p, r) = Some(hist[Latest(SpecificCalls(p, r))].val)

\* A query answered with the program-specific value although a different
\* universal value for the same resource was inserted after it.
C1_Witness ==
    \E i \in 1..Len(hist), j \in 1..Len(hist) :
        /\ i < j
        /\ hist[i].op = "insert"
        /\ hist[j].op = "insert_universal"
        /\ hist[j].res = hist[i].res
        /\ hist[j].val # hist[i].val
        /\ last_query = [program |-> hist[i].program, res |-> hist[i].res,
                         result |-> Some(hist[i].val)]

\* C2: for a program with no insert(p, r, _) so far, query(p, r) returns the
\* most recent universal value of r when one was inserted and None otherwise.
C2_UniversalFallback ==
    \A p \in QueryPrograms, r \in Resources :
        SpecificCalls(p, r) = {} =>
            query(xrdb, p, r) =
                IF UniversalCalls(r) # {}
                THEN Some(hist[Latest(UniversalCalls(r))].val)
                ELSE None

\* A program whose table holds only another resource was answered with the
\* universal value.
C2_Witness ==
    /\ last_query.program \in DOMAIN xrdb.db
    /\ last_query.res \notin DOMAIN xrdb.db[last_query.program]
    /\ UniversalCalls(last_query.res) # {}
    /\ last_query.result = Some(xrdb.univeral[last_query.res])

\* C3: a step that is an insert_universal call leaves the per-program maps as
\* they were, and a step that is an insert call leaves the universal map as
\* it was.
C3_TiersDisjoint ==
    [][hist' # hist =>
          /\ hist'[Len(hist')].op = "insert_universal" => xrdb'.db = xrdb.db
          /\ hist'[Len(hist')].op = "insert" => xrdb'.univeral = xrdb.univeral
      ]_vars

\* The last call was an insert_universal for a resource that a program holds
\* with a different value.
C3_Witness ==
    /\ Len(hist) >= 2
    /\ LastCall.op = "insert_universal"
    /\ \E p \in DOMAIN xrdb.db :
          /\ LastCall.res \in DOMAIN xrdb.db[p]
          /\ xrdb.db[p][LastCall.res] # LastCall.val

\* C4: a step that is insert(p, r, v) leaves p with a table, makes query(p, r)
\* return v, and changes neither the stored entry nor the query result of any
\* other (program, resource) pair, nor the set of other programs.
StoredEntry(self, p, r) ==
    IF p \in DOMAIN self.db THEN HashMapGet(self.db[p], r) ELSE None

C4_InsertIsUpsert ==
    [][(hist' # hist /\ hist'[Len(hist')].op = "insert") =>
          LET c == hist'[Len(hist')] IN
          /\ c.program \in DOMAIN xrdb'.db
          /\ query(xrdb', c.program, c.res) = Some(c.val)
          /\ (DOMAIN xrdb'.db) \ {c.program} = (DOMAIN xrdb.db) \ {c.program}
          /\ \A p \in QueryPrograms, r \in Resources :
                (p # c.program \/ r # c.res) =>
                    /\ StoredEntry(xrdb', p, r) = StoredEntry(xrdb, p, r)
                    /\ query(xrdb', p, r) = query(xrdb, p, r)
      ]_vars

\* The last call overwrote an earlier, different value of the same pair while
\* the same program held another resource.
C4_Witness ==
    /\ Len(hist) >= 3
    /\ LastCall.op = "insert"
    /\ \E i \in 1..(Len(hist) - 1) :
          /\ hist[i].op = "insert"
          /\ hist[i].program = LastCall.program
          /\ hist[i].res = LastCall.res
          /\ hist[i].val # LastCall.val
    /\ \E r \in DOMAIN xrdb.db[LastCall.program] : r # LastCall.res
    /\ query(xrdb, LastCall.program, LastCall.res) = Some(LastCall.val)

\* ---------------------------------------------------------------------
\* Properties of the key table
\* ---------------------------------------------------------------------
Ls == lines(raw_xmodmap)

Said(l) == CHOOSE w \in WellFormed : w[1] = l

\* Line i is in S, every line before it is well formed, and the loop has
\* consumed line i.
ConsumedFirstBad(S) ==
    LET ls == Ls IN
    \E i \in 1..Len(ls) :
        /\ i <= line_no
        /\ ls[i] \in S
        /\ \A j \in 1..(i - 1) : ls[j] \in WellFormedLines

InvalidFormat == [kind |-> "Err", err |-> "InvalidFormat"]

\* C6: after a successful build every line was well formed, and for each key
\* code the cells (Key, code) and (ShiftKey, code) hold the first and the
\* second symbol after `=` of the last line that names the code, an
\* unrecognized or missing token counting as KEY_NONE.
C6_GetReturnsParsed ==
    result.kind = "Ok" =>
        LET ls == Ls IN
        /\ \A i \in 1..Len(ls) : ls[i] \in WellFormedLines
        /\ LET said == [i \in 1..Len(ls) |-> Said(ls[i])] IN
           \A i \in 1..Len(ls) :
              (\A j \in (i + 1)..Len(ls) : said[j][2] # said[i][2]) =>
                  /\ get_keysym(result.table, "Key", said[i][2])
                        = Ok(said[i][3])
                  /\ get_keysym(result.table, "ShiftKey", said[i][2])
                        = Ok(said[i][4])

\* After `keycode 38 = a A` and a line without symbols, get(ShiftKey, 38) was
\* answered with KEY_A.
C6_Witness ==
    /\ result.kind = "Ok"
    /\ last_lookup = [call |-> "get_keysym", modifier |-> "ShiftKey",
                      code |-> 38, ret |-> Ok("KEY_A")]
    /\ get_keysym(result.table, "Key", 9) = Ok("KEY_NONE")
    /\ \E i \in 1..Len(Ls) : Ls[i] = L_38_a_A
    /\ \E i \in 1..Len(Ls) : Ls[i] = L_9_nosyms

\* C7: once the loop has consumed a line that lacks the key code, all lines
\* before it being well formed, the build has returned InvalidFormat and no
\* table, whatever follows the line.
C7_MissingKeyCodeAborts ==
    ConsumedFirstBad(MissingKeyCodeLines) => result = InvalidFormat

\* The build returned InvalidFormat at a line without key code that has well
\* formed lines before it and more lines after it.
C7_Witness ==
    /\ result = InvalidFormat
    /\ line_no >= 2
    /\ LET ls == Ls IN
       /\ line_no < Len(ls)
       /\ ls[line_no] \in MissingKeyCodeLines
       /\ \A j \in 1..(line_no - 1) : ls[j] \in WellFormedLines

\* C8: the build never panics, and once the loop has consumed a line whose
\* first token is not `keycode` or that lacks `=` after the key code, the
\* build has returned InvalidFormat.
C8_MalformedIsTypedError ==
    /\ result.kind # "panic"
    /\ ConsumedFirstBad(StructurallyMalformedLines) => result = InvalidFormat

\* C9: after a successful build get_key(s) fails with NonExistentKeySym when
\* no line produced s in either column, and otherwise returns the key code of
\* the last line that did, with modifier Key when s is that line's
\* unmodified-column symbol.
C9_ReverseLastWins ==
    result.kind = "Ok" =>
        LET ls == Ls
            said == [i \in 1..Len(ls) |-> Said(ls[i])]
        IN  \A s \in KeySym :
            LET from == {i \in 1..Len(ls) : said[i][3] = s \/ said[i][4] = s}
                got  == get_key(result.table, s)
            IN  IF from = {}
                THEN got = Err("NonExistentKeySym")
                ELSE /\ got.ok
                     /\ got.val[2] = said[Latest(from)][2]
                     /\ said[Latest(from)][3] = s =>
                           got.val = <<"Key", said[Latest(from)][2]>>

\* KEY_a was parsed at key code 38 and later at key code 40, get_key(KEY_a)
\* was answered with (Key, 40), and a symbol no line produced is not found.
C9_Witness ==
    /\ result.kind = "Ok"
    /\ last_lookup = [call |-> "get_key", keysym |-> "KEY_a",
                      ret |-> Ok(<<"Key", 40>>)]
    /\ get_key(result.table, "KEY_z") = Err("NonExistentKeySym")
    /\ LET ls == Ls IN
       \E i \in 1..Len(ls), j \in 1..Len(ls) :
          i < j /\ ls[i] = L_38_a_A /\ ls[j] = L_40_a

\* ---------------------------------------------------------------------
\* Properties of the construction from the external tools
\* ---------------------------------------------------------------------
\* The tool could not be launched, exited with a non-zero status, or wrote
\* output that is not valid text.
ToolFailed(output) ==
    \/ ~output.launched
    \/ ~output.success
    \/ ~from_utf8(output.stdout).ok

\* The tool exited with a non-zero status and its standard error is text.
ExitedWith(output) ==
    output.launched /\ ~output.success /\ from_utf8(output.stderr).ok

\* Xrdb::read has returned: after a failure of the tool it returned an error
\* and stored nothing, and the error carries the standard error of a
\* non-zero exit.
XrdbToolFailureIsError ==
    (read_ret.kind # "none" /\ ToolFailed(xrdb_output)) =>
        /\ read_ret.kind = "Err"
        /\ xrdb = XrdbNew
        /\ ExitedWith(xrdb_output) => read_ret = Errored(xrdb_output.stderr)

\* KeyTable::new has returned: after a failure of the tool it returned an
\* error, and the error carries the standard error of a non-zero exit.
XmodmapToolFailureIsError ==
    (result.kind \notin {"spawn", "running"} /\ ToolFailed(xmodmap_output)) =>
        /\ result.kind = "Err"
        /\ ExitedWith(xmodmap_output) =>
              /\ "text" \in DOMAIN result
              /\ result.text = xmodmap_output.stderr

\* C11: for both components, when the tool cannot be launched, exits with a
\* non-zero status or writes output that is not valid text, construction
\* returns an error and no table, and for a non-zero exit the error carries
\* the captured standard error.
C11_ToolFailureIsError ==
    /\ XrdbToolFailureIsError
    /\ XmodmapToolFailureIsError

\* The resource lines that lack a `.`, or lack a `:` after the first `.`
SkippedLines == {R_nocolon, R_nodot, R_colon_first, R_empty}

\* What each of the other resource lines says: <<line, call>>
ResSaid ==
    { <<R_univ_color, [op |-> "insert_universal", program |-> <<"*">>,
                       res |-> <<"c","o","l","o","r","1">>,
                       val |-> <<"#","f","f","f">>]>>,
      <<R_dwm_color,  [op |-> "insert", program |-> <<"d","w","m">>,
                       res |-> <<"c","o","l","o","r","1">>,
                       val |-> <<"#","0","0","0">>]>>,
      <<R_spaced,     [op |-> "insert_universal", program |-> <<"*">>,
                       res |-> <<"f","o","n","t">>,
                       val |-> <<"m","o","n","o">>]>>,
      <<R_st_spaced,  [op |-> "insert", program |-> <<"s","t">>,
                       res |-> <<"c","o","l","o","r","1">>,
                       val |-> <<"#","0","0","0">>]>>,
      <<R_multi,      [op |-> "insert", program |-> <<"s","t">>,
                       res |-> <<"f","o","n","t",".","s","i","z","e">>,
                       val |-> <<"1",":","2">>]>> }

ResCall(l) == (CHOOSE w \in ResSaid : w[1] = l)[2]

\* The lines of the captured resource text
ResLs == lines(xrdb_output.stdout)

RECURSIVE TextOf(_)
TextOf(ls) ==
    IF ls = <<>> THEN <<>> ELSE Head(ls) \o <<"\n">> \o TextOf(Tail(ls))

\* C12: loading returns Ok whatever lines lack a separator, and leaves the
\* store as loading the same text without those lines leaves it: one call
\* was made for each of the other lines.
C12_MalformedLinesSkipped ==
    read_ret.kind # "none" =>
        LET ls == ResLs
            kept(l) == l \notin SkippedLines
        IN  /\ read_ret = [kind |-> "Ok"]
            /\ Len(hist) = Len(SelectSeq(ls, kept))
            /\ xrdb = make_calls(XrdbNew,
                                 read(Ran(TRUE, TextOf(SelectSeq(ls, kept)),
                                          <<>>)).calls)

\* A load returned Ok on a text with a line lacking a separator between two
\* other lines, and stored both of them.
C12_Witness ==
    /\ read_ret = [kind |-> "Ok"]
    /\ LET ls == ResLs IN
       /\ Len(ls) = 3
       /\ ls[1] \notin SkippedLines
       /\ ls[2] \in SkippedLines
       /\ ls[3] \notin SkippedLines
       /\ hist = <<ResCall(ls[1]), ResCall(ls[3])>>
       /\ ResCall(ls[1]).res # ResCall(ls[3]).res
       /\ query(xrdb, <<"s","t">>, ResCall(ls[1]).res) = Some(ResCall(ls[1]).val)
       /\ query(xrdb, <<"s","t">>, ResCall(ls[3]).res) = Some(ResCall(ls[3]).val)

\* C13: after a load, the calls made are, in order, what the lines with both
\* separators say (split at the first `.` and then at the first `:`, fields
\* trimmed, `*` meaning universal), every query is answered from them, and
\* after `*.color1:#fff` then `dwm.color1:#000` query("dwm", "color1") is
\* "#000" and query("st", "color1") is "#fff".
C13_LoadStoresWhatLinesSay ==
    read_ret.kind = "Ok" =>
        LET ls == ResLs
            kept(l) == l \notin SkippedLines
            said == [i \in 1..Len(SelectSeq(ls, kept)) |->
                        ResCall(SelectSeq(ls, kept)[i])]
        IN  /\ hist = said
            /\ \A p \in ReadPrograms, r \in ReadResources :
                  LET own == {i \in 1..Len(said) :
                                /\ said[i].op = "insert"
                                /\ said[i].program = p
                                /\ said[i].res = r}
                      uni == {i \in 1..Len(said) :
                                /\ said[i].op = "insert_universal"
                                /\ said[i].res = r}
                  IN  query(xrdb, p, r) =
                        IF own # {} THEN Some(said[Latest(own)].val)
                        ELSE IF uni # {} THEN Some(said[Latest(uni)].val)
                        ELSE None
            /\ ls = <<R_univ_color, R_dwm_color>> =>
                  /\ query(xrdb, <<"d","w","m">>, <<"c","o","l","o","r","1">>)
                        = Some(<<"#","0","0","0">>)
                  /\ query(xrdb, <<"s","t">>, <<"c","o","l","o","r","1">>)
                        = Some(<<"#","f","f","f">>)

\* After `*.color1:#fff`, `dwm.color1:#000` and a line with spaces around its
\* fields, query("st", "color1") was answered with "#fff".
C13_Witness ==
    /\ read_ret = [kind |-> "Ok"]
    /\ ResLs = <<R_univ_color, R_dwm_color, R_spaced>>
    /\ query(xrdb, <<"d","w","m">>, <<"f","o","n","t">>) = Some(<<"m","o","n","o">>)
    /\ last_query = [program |-> <<"s","t">>, res |-> <<"c","o","l","o","r","1">>,
                     result |-> Some(<<"#","f","f","f">>)]

\* C14: after a successful build, whenever get_key(s) returns the key (m, k),
\* get_keysym(m, k) returns s.
C14_ReverseConsistent ==
    result.kind = "Ok" =>
        \A s \in KeySym :
            LET got == get_key(result.table, s) IN
            got.ok => get_keysym(result.table, got.val[1], got.val[2]) = Ok(s)

====
